---- MODULE Spec2Model ----
(***************************************************************************)
(* A model of the CardFile card collection (card.py, cardfile.py) and of   *)
(* the handlers of its window (ui/main_window.py).  Spec is the collection *)
(* under all its operations, SearchSpec the searches and the Find Next of  *)
(* the window on a collection whose contents differ, CardSpec the methods  *)
(* of Card on cards made from titles and contents with blanks in them,     *)
(* RecordSpec the loading of records that lack fields, WindowSpec the      *)
(* window's handlers for files, closing, adding and deleting (snapshot is  *)
(* not followed there).                                                    *)
(*                                                                         *)
(* Strings are sequences of character codes (ASCII), so that lower(),      *)
(* strip() and the comparison of sort keys are computed, not assumed.      *)
(* A datetime is a natural number of clock ticks.                          *)
(* Python indices are 0-based and so is current_index; the sequence cards  *)
(* is 1-based, so the card at Python index i is cards[i + 1].              *)
(*                                                                         *)
(* Object identity.  The state holds card VALUES.  Inside one operation    *)
(* every card object carries a tag "id": its 1-based position before the   *)
(* operation, and Len(cards) + 1 for the card the operation constructs.    *)
(* The history variable ret records, for each position of the list after   *)
(* the operation, the tag of the object now standing there (ret.ident), so *)
(* that "the same object" can be told from "an equal object".              *)
(***************************************************************************)
EXTENDS Integers, Sequences, FiniteSets, TLC

VARIABLES
    cards,          \* CardFile.cards: the list of cards
    current_index,  \* CardFile.current_index (0-based)
    filepath,       \* CardFile.filepath: <<>> is None, <<p>> is Path(p)
    modified,       \* CardFile.modified: the dirty flag
    clock,          \* what datetime.now() returns
    snapshot,       \* history: the cards of the last document saved or loaded,
                    \* kept as long as modified is FALSE (<<>> once it is TRUE)
    ret,            \* history: the last operation, its arguments and result
    window          \* MainWindow: last_search_query, and whether the root
                    \* window is still there (alive) or destroyed

vars == <<cards, current_index, filepath, modified, clock, snapshot, ret, window>>

(***************************************************************************)
(* Bounds of the model.                                                    *)
(***************************************************************************)
MaxCards == 3
MaxClock == 1
MaxTitleLen == 8
MaxDocLen == 2
TicksPerSecond == 2
MaxCardsEdited == 2
\* the Find Next steps in a row that the model follows
MaxFindSteps == 6

(***************************************************************************)
(* Strings.                                                                *)
(***************************************************************************)
\* str.lower() on one ASCII character
LowerChar(c) == IF c \in 65..90 THEN c + 32 ELSE c

\* str.lower()
Lower(s) == [i \in 1..Len(s) |-> LowerChar(s[i])]

\* str.isspace() on one character: space, tab, newline, carriage return
IsSpace(c) == c \in {32, 9, 10, 13}

RECURSIVE LStrip(_)
LStrip(s) ==
    IF s # <<>> /\ IsSpace(Head(s)) THEN LStrip(Tail(s)) ELSE s

RECURSIVE RStrip(_)
RStrip(s) ==
    IF s # <<>> /\ IsSpace(s[Len(s)]) THEN RStrip(SubSeq(s, 1, Len(s) - 1)) ELSE s

\* str.strip()
Strip(s) == RStrip(LStrip(s))

\* a < b on Python strings: lexicographic by code point
RECURSIVE StrLess(_, _)
StrLess(a, b) ==
    IF b = <<>> THEN FALSE
    ELSE IF a = <<>> THEN TRUE
    ELSE IF Head(a) # Head(b) THEN Head(a) < Head(b)
    ELSE StrLess(Tail(a), Tail(b))

StrLeq(a, b) == a = b \/ StrLess(a, b)

\* sub in s: sub occurs in s as a run of consecutive characters
Contains(sub, s) ==
    \E i \in 0..(Len(s) - Len(sub)) : SubSeq(s, i + 1, i + Len(sub)) = sub

\* "Untitled"
UNTITLED == <<85, 110, 116, 105, 116, 108, 101, 100>>

\* " (Copy)"
COPY_SUFFIX == <<32, 40, 67, 111, 112, 121, 41>>

(***************************************************************************)
(* Card (card.py).                                                         *)
(***************************************************************************)
\* a Card that keeps the title it is given, blank or not: what
\* TitleNeverBlank guards against
MakeCardAsGiven(title, content, created, mod) ==
    [title |-> title, content |-> content, created |-> created, modified |-> mod]

\* Card(title, content, created, modified): __post_init__ replaces an empty
\* or whitespace-only title by "Untitled" and keeps any other title as given
MakeCard(title, content, created, mod) ==
    [title    |-> IF Strip(title) = <<>> THEN UNTITLED ELSE title,
     content  |-> content,
     created  |-> created,
     modified |-> mod]

\* Card(title=title, content=content): the timestamps default to now
NewCard(title, content, now) == MakeCard(title, content, now, now)

\* Card.update_title
UpdateTitle(card, new_title, now) ==
    [card EXCEPT !.title = IF Strip(new_title) = <<>> THEN UNTITLED
                           ELSE Strip(new_title),
                 !.modified = now]

\* an update_content that trims what it is given: what UpdateContract guards
\* against
UpdateContentTrimmed(card, new_content, now) ==
    [card EXCEPT !.content = Strip(new_content), !.modified = now]

\* Card.update_content
UpdateContent(card, new_content, now) ==
    [card EXCEPT !.content = new_content, !.modified = now]

\* one decimal digit as a character
Digit(n) == 48 + n

IsDigit(c) == c \in 48..57

\* an isoformat that drops the fraction of a second: what SaveLoadRoundTrip
\* guards against
IsoFormatWholeSeconds(t) == <<Digit(t \div TicksPerSecond)>>

\* datetime.isoformat(): whole seconds, then "." and the fraction of a second
\* only when the fraction is not zero
IsoFormat(t) ==
    LET s == t \div TicksPerSecond
        f == t % TicksPerSecond
    IN  IF f = 0 THEN <<Digit(s)>> ELSE <<Digit(s), 46, Digit(f)>>

\* whether datetime.fromisoformat(str) parses str (it raises ValueError if not)
IsIsoFormat(str) ==
    \/ Len(str) = 1 /\ IsDigit(str[1])
    \/ Len(str) = 3 /\ IsDigit(str[1]) /\ str[2] = 46 /\ IsDigit(str[3])
          /\ str[3] - 48 < TicksPerSecond

\* datetime.fromisoformat(str), for a str it parses
FromIsoFormat(str) ==
    IF Len(str) = 1 THEN (str[1] - 48) * TicksPerSecond
    ELSE (str[1] - 48) * TicksPerSecond + (str[3] - 48)

\* Card.to_dict
ToDict(card) ==
    [title    |-> card.title,
     content  |-> card.content,
     created  |-> IsoFormat(card.created),
     modified |-> IsoFormat(card.modified)]

\* a from_dict that reads data["created"] and data["modified"] whether they
\* are there or not: what FromDictContract guards against
FromDictRaisesWhenAbsent(data) ==
    \/ "created" \notin DOMAIN data
    \/ "modified" \notin DOMAIN data
    \/ ~IsIsoFormat(data.created)
    \/ ~IsIsoFormat(data.modified)

\* whether Card.from_dict(data) raises: a timestamp that is there and does
\* not parse
FromDictRaises(data) ==
    \/ "created" \in DOMAIN data /\ ~IsIsoFormat(data.created)
    \/ "modified" \in DOMAIN data /\ ~IsIsoFormat(data.modified)

\* Card.from_dict(data), for a data it does not raise on
FromDict(data, now) ==
    MakeCard(IF "title" \in DOMAIN data THEN data.title ELSE UNTITLED,
             IF "content" \in DOMAIN data THEN data.content ELSE <<>>,
             IF "created" \in DOMAIN data THEN FromIsoFormat(data.created) ELSE now,
             IF "modified" \in DOMAIN data THEN FromIsoFormat(data.modified) ELSE now)

\* "..."
ELLIPSIS == <<46, 46, 46>>

\* s[:k]: the first k characters of s, and for a negative k all but the
\* last -k
SliceTo(s, k) ==
    IF k >= 0
    THEN SubSeq(s, 1, IF k < Len(s) THEN k ELSE Len(s))
    ELSE SubSeq(s, 1, IF Len(s) + k > 0 THEN Len(s) + k ELSE 0)

\* a get_index_title that cuts a title exactly max_length long: what
\* IndexTitleContract guards against
get_index_title_strict(card, max_length) ==
    IF Len(card.title) < max_length
    THEN card.title
    ELSE SliceTo(card.title, max_length - 3) \o ELLIPSIS

\* Card.get_index_title
get_index_title(card, max_length) ==
    IF Len(card.title) <= max_length
    THEN card.title
    ELSE SliceTo(card.title, max_length - 3) \o ELLIPSIS

(***************************************************************************)
(* Card objects inside one operation: a value and the tag that tells the   *)
(* object from every other object in the list.                             *)
(***************************************************************************)
Tag(cs) == [i \in 1..Len(cs) |-> [id |-> i, val |-> cs[i]]]

Untag(ts) == [i \in 1..Len(ts) |-> ts[i].val]

Ids(ts) == [i \in 1..Len(ts) |-> ts[i].id]

\* the position (0-based) of the object tagged id, -1 if it is not there
PosOfId(ts, id) ==
    IF \E j \in 1..Len(ts) : ts[j].id = id
    THEN (CHOOSE j \in 1..Len(ts) : ts[j].id = id) - 1
    ELSE -1

\* x == y on list elements, as list.index applies it: the same object, or
\* (the dataclass's generated __eq__) equal title, content, created, modified
SameOrEqual(x, y) == x.id = y.id \/ x.val = y.val

\* list.index(x), 0-based: the first position holding x or a card equal to x
ListIndex(ts, x) ==
    CHOOSE j \in 0..(Len(ts) - 1) :
        /\ SameOrEqual(ts[j + 1], x)
        /\ \A k \in 0..(j - 1) : ~SameOrEqual(ts[k + 1], x)

\* a sort key that forgets lower(): what SortedAfterMutation guards against
SortKeyCaseSensitive(t) == t.val.title

\* the sort key: c.title.lower()
SortKey(t) == Lower(t.val.title)

\* an insertion that puts x before the elements whose key equals its own:
\* what SortIsStable guards against
RECURSIVE InsertSortedBeforeEqual(_, _)
InsertSortedBeforeEqual(ts, x) ==
    IF ts = <<>> THEN <<x>>
    ELSE IF StrLeq(SortKey(x), SortKey(ts[Len(ts)]))
         THEN Append(InsertSortedBeforeEqual(SubSeq(ts, 1, Len(ts) - 1), x),
                     ts[Len(ts)])
         ELSE Append(ts, x)

\* one step of a stable insertion: x goes after every element whose key is
\* not greater than its own
RECURSIVE InsertSorted(_, _)
InsertSorted(ts, x) ==
    IF ts = <<>> THEN <<x>>
    ELSE IF StrLess(SortKey(x), SortKey(ts[Len(ts)]))
         THEN Append(InsertSorted(SubSeq(ts, 1, Len(ts) - 1), x), ts[Len(ts)])
         ELSE Append(ts, x)

\* list.sort(key=lambda c: c.title.lower()): stable, ascending
RECURSIVE ListSort(_)
ListSort(ts) ==
    IF ts = <<>> THEN <<>>
    ELSE InsertSorted(ListSort(SubSeq(ts, 1, Len(ts) - 1)), ts[Len(ts)])

\* a del that removes the card after idx: what DeleteCardContract guards
\* against
DelAtNext(ts, idx) == SubSeq(ts, 1, idx + 1) \o SubSeq(ts, idx + 3, Len(ts))

\* del list[idx]
DelAt(ts, idx) == SubSeq(ts, 1, idx) \o SubSeq(ts, idx + 2, Len(ts))

\* min(a, b)
Min(a, b) == IF a < b THEN a ELSE b

(***************************************************************************)
(* CardFile (cardfile.py).  self is the object: its cards (tagged), its    *)
(* current_index, filepath and modified.  A method yields the object after *)
(* the call and the value returned.                                        *)
(***************************************************************************)
\* a range check that forgets the lower bound: what FailedCallsChangeNothing
\* guards against
InRangeNoLowerBound(idx, n) == idx < n

\* 0 <= idx < len(self.cards)
InRange(idx, n) == 0 <= idx /\ idx < n

\* CardFile.sort_cards
sort_cards(self) ==
    IF self.cards # <<>>
    THEN LET current_card == self.cards[self.current_index + 1]
             sorted == ListSort(self.cards)
         IN  [self EXCEPT !.cards = sorted,
                          !.current_index = ListIndex(sorted, current_card)]
    ELSE self

\* append a card object, sort_cards, cursor to index(card), modified = True:
\* the body add_card and duplicate_card share
AppendCard(self, card) ==
    LET sorted == sort_cards([self EXCEPT !.cards = Append(@, card)])
    IN  [sorted EXCEPT !.current_index = ListIndex(sorted.cards, card),
                       !.modified = TRUE]

\* CardFile.add_card
add_card(self, title, content, now) ==
    LET card == [id |-> Len(self.cards) + 1, val |-> NewCard(title, content, now)]
    IN  [self |-> AppendCard(self, card), result |-> <<card>>]

\* a cursor left where it was: what CurrentIndexInRange guards against
DeleteCursorStale(cur, n) == cur

\* a cursor that steps back whatever card was removed: what
\* DeleteKeepsCursorPosition guards against
DeleteCursorStepsBack(cur, n) ==
    IF n > 0 THEN Min(IF cur > 0 THEN cur - 1 ELSE 0, n - 1) ELSE 0

\* CardFile.delete_card, the cursor once the card is removed
DeleteCursor(cur, n) ==
    IF n > 0 THEN Min(cur, n - 1) ELSE 0

\* CardFile.delete_card
delete_card(self, index) ==
    IF self.cards = <<>>
    THEN [self |-> self, result |-> FALSE]
    ELSE LET idx == IF index # <<>> THEN index[1] ELSE self.current_index
         IN  IF InRange(idx, Len(self.cards))
             THEN LET rest == DelAt(self.cards, idx)
                  IN  [self |-> [self EXCEPT
                                   !.cards = rest,
                                   !.modified = TRUE,
                                   !.current_index =
                                       DeleteCursor(self.current_index, Len(rest))],
                       result |-> TRUE]
             ELSE [self |-> self, result |-> FALSE]

\* the card duplicate_card constructs from the original
CopyOf(original, now) ==
    NewCard(original.title \o COPY_SUFFIX, original.content, now)

\* CardFile.duplicate_card; the result <<>> is None
duplicate_card(self, index, now) ==
    IF self.cards = <<>>
    THEN [self |-> self, result |-> <<>>]
    ELSE LET idx == IF index # <<>> THEN index[1] ELSE self.current_index
         IN  IF InRange(idx, Len(self.cards))
             THEN LET original == self.cards[idx + 1]
                      new_card == [id  |-> Len(self.cards) + 1,
                                   val |-> CopyOf(original.val, now)]
                  IN  [self |-> AppendCard(self, new_card), result |-> <<new_card>>]
             ELSE [self |-> self, result |-> <<>>]

\* CardFile.navigate_to
navigate_to(self, index) ==
    IF InRange(index, Len(self.cards))
    THEN [self |-> [self EXCEPT !.current_index = index], result |-> TRUE]
    ELSE [self |-> self, result |-> FALSE]

\* a navigate_next that goes from the last card round to the first: what
\* NavigateStepContract guards against
navigate_next_wraps(self) ==
    IF self.current_index < Len(self.cards) - 1
    THEN [self |-> [self EXCEPT !.current_index = @ + 1], result |-> TRUE]
    ELSE IF self.cards # <<>>
         THEN [self |-> [self EXCEPT !.current_index = 0], result |-> TRUE]
         ELSE [self |-> self, result |-> FALSE]

\* CardFile.navigate_next
navigate_next(self) ==
    IF self.current_index < Len(self.cards) - 1
    THEN [self |-> [self EXCEPT !.current_index = @ + 1], result |-> TRUE]
    ELSE [self |-> self, result |-> FALSE]

\* CardFile.navigate_previous
navigate_previous(self) ==
    IF self.current_index > 0
    THEN [self |-> [self EXCEPT !.current_index = @ - 1], result |-> TRUE]
    ELSE [self |-> self, result |-> FALSE]

\* whether search takes the card: the query, lower-cased, is in its title or,
\* if search_content, in its content
SearchHit(card, query, search_content) ==
    \/ Contains(query, Lower(card.title))
    \/ search_content /\ Contains(query, Lower(card.content))

\* the loop of search over the first n cards: the results so far
RECURSIVE SearchLoop(_, _, _, _)
SearchLoop(ts, n, query, search_content) ==
    IF n = 0 THEN <<>>
    ELSE LET results == SearchLoop(ts, n - 1, query, search_content)
         IN  IF SearchHit(ts[n].val, query, search_content)
             THEN Append(results, n - 1)
             ELSE results

\* a search that compares the query as typed with the lower-cased text: what
\* SearchContract guards against
search_query_as_typed(self, query, search_content) ==
    SearchLoop(self.cards, Len(self.cards), query, search_content)

\* CardFile.search: the indices (0-based) of the cards taken, in list order
search(self, query, search_content) ==
    SearchLoop(self.cards, Len(self.cards), Lower(query), search_content)

\* a find_next that takes a match at from_index itself: what FindNextContract
\* guards against
find_next_from_inclusive(self, query, from_index) ==
    LET results == search(self, query, TRUE)
        after   == SelectSeq(results, LAMBDA idx : idx >= from_index)
        wrapped == SelectSeq(results, LAMBDA idx : idx <= from_index)
    IN  IF after # <<>> THEN <<after[1]>>
        ELSE IF wrapped # <<>> THEN <<wrapped[1]>>
        ELSE <<>>

\* CardFile.find_next: <<idx>> is the index returned, <<>> is None
find_next(self, query, from_index) ==
    LET results == search(self, query, TRUE)
        after   == SelectSeq(results, LAMBDA idx : idx > from_index)
        wrapped == SelectSeq(results, LAMBDA idx : idx <= from_index)
    IN  IF after # <<>> THEN <<after[1]>>
        ELSE IF wrapped # <<>> THEN <<wrapped[1]>>
        ELSE <<>>

\* a new_file that keeps the path: what NewFileContract guards against
new_file_keeps_path(self) ==
    [cards |-> <<>>, current_index |-> 0, filepath |-> self.filepath,
     modified |-> FALSE]

\* CardFile.new_file
new_file(self) ==
    [cards |-> <<>>, current_index |-> 0, filepath |-> <<>>, modified |-> FALSE]

\* "1.0.1"
VERSION == "1.0.1"

\* the document save_to_file writes: the version and the cards, each as
\* to_dict gives it, in the order of the list
SaveData(self) ==
    [version |-> VERSION,
     cards   |-> [i \in 1..Len(self.cards) |-> ToDict(self.cards[i].val)]]

\* a save that keeps the stored path when it is given another one: what
\* SaveToFileContract guards against
save_to_file_keeps_path(self, path, written) ==
    LET save_path == IF path # <<>> THEN path ELSE self.filepath
    IN  IF save_path = <<>>
        THEN [self |-> self, result |-> FALSE, data |-> <<>>]
        ELSE IF written
             THEN [self |-> [self EXCEPT
                               !.filepath = IF self.filepath # <<>>
                                            THEN self.filepath ELSE save_path,
                               !.modified = FALSE],
                   result |-> TRUE,
                   data |-> <<SaveData(self)>>]
             ELSE [self |-> self, result |-> FALSE, data |-> <<>>]

\* a save that takes the path before it writes: what FailedSaveChangesNothing
\* guards against
save_to_file_path_first(self, path, written) ==
    LET save_path == IF path # <<>> THEN path ELSE self.filepath
    IN  IF save_path = <<>>
        THEN [self |-> self, result |-> FALSE, data |-> <<>>]
        ELSE IF written
             THEN [self |-> [self EXCEPT !.filepath = save_path,
                                         !.modified = FALSE],
                   result |-> TRUE,
                   data |-> <<SaveData(self)>>]
             ELSE [self |-> [self EXCEPT !.filepath = save_path],
                   result |-> FALSE, data |-> <<>>]

\* CardFile.save_to_file; written tells whether write_text succeeds (it
\* raises if not, and the except clause returns False); data is the document
\* written, <<>> if none is
save_to_file(self, path, written) ==
    LET save_path == IF path # <<>> THEN path ELSE self.filepath
    IN  IF save_path = <<>>
        THEN [self |-> self, result |-> FALSE, data |-> <<>>]
        ELSE IF written
             THEN [self |-> [self EXCEPT !.filepath = save_path,
                                         !.modified = FALSE],
                   result |-> TRUE,
                   data |-> <<SaveData(self)>>]
             ELSE [self |-> self, result |-> FALSE, data |-> <<>>]

\* the first record (0-based) Card.from_dict raises on, -1 if there is none
FirstBadRecord(recs) ==
    IF \E i \in 1..Len(recs) : FromDictRaises(recs[i])
    THEN (CHOOSE i \in 1..Len(recs) :
              /\ FromDictRaises(recs[i])
              /\ \A k \in 1..(i - 1) : ~FromDictRaises(recs[k])) - 1
    ELSE -1

\* whether load_from_file raises inside its try block; all that can raise
\* (read_text, json.loads, data.get, the list comprehension) runs before the
\* first assignment to self
LoadRaises(doc) ==
    \/ doc.kind \in {"unreadable", "unparseable", "notobject", "badcards"}
    \/ FirstBadRecord(doc.cards) # -1

\* [Card.from_dict(card_data) for card_data in data.get("cards", [])]: fresh
\* card objects, tagged by their place in the document
LoadedCards(doc, now) ==
    [i \in 1..Len(doc.cards) |-> [id |-> i, val |-> FromDict(doc.cards[i], now)]]

\* a load that leaves the cards as the document has them: what
\* LoadFromFileContract guards against
LoadedSelfUnsorted(path, doc, now) ==
    [cards         |-> LoadedCards(doc, now),
     current_index |-> 0,
     filepath      |-> <<path>>,
     modified      |-> FALSE]

\* load_from_file from its first assignment on: the cards of the document,
\* the cursor on the first, the path, modified cleared, then sort_cards
LoadedSelf(path, doc, now) ==
    sort_cards([cards         |-> LoadedCards(doc, now),
                current_index |-> 0,
                filepath      |-> <<path>>,
                modified      |-> FALSE])

\* a load that takes the path before it reads the file: what
\* FailedLoadChangesNothing guards against
load_from_file_path_first(self, path, doc, now) ==
    IF LoadRaises(doc)
    THEN [self |-> [self EXCEPT !.filepath = <<path>>], result |-> FALSE]
    ELSE [self |-> LoadedSelf(path, doc, now), result |-> TRUE]

\* CardFile.load_from_file
load_from_file(self, path, doc, now) ==
    IF LoadRaises(doc)
    THEN [self |-> self, result |-> FALSE]
    ELSE [self |-> LoadedSelf(path, doc, now), result |-> TRUE]

(***************************************************************************)
(* MainWindow (ui/main_window.py).                                         *)
(***************************************************************************)
\* AddEditCardDialog.ok: the title the dialog hands back for what was typed
DialogTitle(entry) == IF Strip(entry) = <<>> THEN UNTITLED ELSE Strip(entry)

\* MainWindow.edit_card once the dialog is closed with OK: the current card
\* object is updated in place, the collection marked modified and sorted
edit_card(self, entry, content, now) ==
    LET card   == self.cards[self.current_index + 1]
        edited == UpdateContent(UpdateTitle(card.val, DialogTitle(entry), now),
                                content, now)
    IN  sort_cards([self EXCEPT !.cards[self.current_index + 1].val = edited,
                                !.modified = TRUE])

\* a Find Next step that looks from the first card on, wherever the cursor
\* is: what FindNextCycles guards against
find_step_from_first(self, query) ==
    LET idx == find_next(self, query, -1)
    IN  IF idx # <<>>
        THEN [self |-> navigate_to(self, idx[1]).self, result |-> idx]
        ELSE [self |-> self, result |-> idx]

\* the step of on_find and of MainWindow.find_next: find_next from the
\* cursor, then MainWindow.navigate_to to the index found, if any
find_step(self, query) ==
    LET idx == find_next(self, query, self.current_index)
    IN  IF idx # <<>>
        THEN [self |-> navigate_to(self, idx[1]).self, result |-> idx]
        ELSE [self |-> self, result |-> idx]

\* on_find of MainWindow.find_card: the query is kept as the last one
on_find(self, win, query) ==
    LET out == find_step(self, query)
    IN  [self |-> out.self, result |-> out.result,
         window |-> [win EXCEPT !.last_search_query = query]]

\* MainWindow.find_next: nothing without a last query
window_find_next(self, win) ==
    IF win.last_search_query # <<>>
    THEN LET out == find_step(self, win.last_search_query)
         IN  [self |-> out.self, result |-> out.result, window |-> win]
    ELSE [self |-> self, result |-> <<>>, window |-> win]

\* "Welcome": the title of the first card of a window and of a new file;
\* the first character of the card's text stands for the whole text
WELCOME_TITLE == <<87, 101, 108, 99, 111, 109, 101>>

WELCOME_CONTENT == <<87>>

\* the text of the first card of a new file (its first character)
NEW_FILE_CONTENT == <<89>>

\* MainWindow.save_file_as: picker is the path chosen in the Save-As picker,
\* <<>> if the picker was cancelled
save_file_as(self, picker, written) ==
    IF picker # <<>>
    THEN save_to_file(self, picker, written)
    ELSE [self |-> self, result |-> FALSE, data |-> <<>>]

\* MainWindow.save_file
save_file(self, picker, written) ==
    IF self.filepath # <<>>
    THEN save_to_file(self, <<>>, written)
    ELSE save_file_as(self, picker, written)

\* a check_save that goes on after Yes whatever the save has returned: what
\* NothingDiscardedUnasked guards against
check_save_after_any_save(self, answer, picker, written) ==
    IF self.modified
    THEN IF answer = "cancel"
         THEN [self |-> self, result |-> FALSE, data |-> <<>>, answer |-> answer]
         ELSE IF answer = "yes"
              THEN LET saved == save_file(self, picker, written)
                   IN  [self |-> saved.self, result |-> TRUE,
                        data |-> saved.data, answer |-> answer]
              ELSE [self |-> self, result |-> TRUE, data |-> <<>>,
                    answer |-> answer]
    ELSE [self |-> self, result |-> TRUE, data |-> <<>>, answer |-> "none"]

\* MainWindow.check_save: answer is what the user answers the prompt, which
\* is shown only for a modified collection; the answer field of the outcome
\* is the answer given, "none" if nothing was asked
check_save(self, answer, picker, written) ==
    IF self.modified
    THEN IF answer = "cancel"
         THEN [self |-> self, result |-> FALSE, data |-> <<>>, answer |-> answer]
         ELSE IF answer = "yes"
              THEN LET saved == save_file(self, picker, written)
                   IN  [self |-> saved.self, result |-> saved.result,
                        data |-> saved.data, answer |-> answer]
              ELSE [self |-> self, result |-> TRUE, data |-> <<>>,
                    answer |-> answer]
    ELSE [self |-> self, result |-> TRUE, data |-> <<>>, answer |-> "none"]

\* MainWindow.new_file; went_on: the collection was reset
window_new_file(self, answer, picker, written, now) ==
    LET chk == check_save(self, answer, picker, written)
    IN  IF ~chk.result
        THEN [self |-> chk.self, went_on |-> FALSE, data |-> chk.data,
              answer |-> chk.answer]
        ELSE [self |-> add_card(new_file(chk.self), WELCOME_TITLE,
                                NEW_FILE_CONTENT, now).self,
              went_on |-> TRUE, data |-> chk.data, answer |-> chk.answer]

\* MainWindow.open_file: chosen is the path chosen in the Open picker, <<>>
\* if it was cancelled, doc what is found there; went_on: the collection was
\* replaced
window_open_file(self, answer, picker, written, chosen, doc, now) ==
    LET chk == check_save(self, answer, picker, written)
    IN  IF ~chk.result \/ chosen = <<>>
        THEN [self |-> chk.self, went_on |-> FALSE, data |-> chk.data,
              answer |-> chk.answer]
        ELSE LET loaded == load_from_file(chk.self, chosen[1], doc, now)
             IN  [self |-> loaded.self, went_on |-> loaded.result,
                  data |-> chk.data, answer |-> chk.answer]

\* MainWindow.on_close; went_on: the window was destroyed
on_close(self, answer, picker, written) ==
    LET chk == check_save(self, answer, picker, written)
    IN  [self |-> chk.self, went_on |-> chk.result, data |-> chk.data,
         answer |-> chk.answer]

\* MainWindow.delete_card: answer is what the user answers the prompt, which
\* is shown only if there is a card
window_delete_card(self, answer) ==
    IF self.cards = <<>>
    THEN [self |-> self, answer |-> "none"]
    ELSE IF answer = "yes"
         THEN [self |-> delete_card(self, <<>>).self, answer |-> answer]
         ELSE [self |-> self, answer |-> answer]

\* MainWindow.add_card: result is what the dialog hands back, <<>> if it was
\* cancelled
window_add_card(self, result, now) ==
    IF result # <<>>
    THEN add_card(self, result[1], result[2], now).self
    ELSE self

(***************************************************************************)
(* Inputs.                                                                 *)
(***************************************************************************)
\* "a" and "B": "B" < "a" as strings, "a" < "b" as sort keys
TitleInputs == {<<97>>, <<66>>}

\* "x"
ContentInputs == {<<120>>}

\* titles for a card on its own: "", " " and " a"
CardTitleInputs == {<<>>, <<32>>, <<32, 97>>}

\* contents for a card on its own: "" and " x"
CardContentInputs == {<<>>, <<32, 120>>}

\* records to make a card from: without a title and with timestamps, the
\* modified one a tick after the created one; with the title "" or " a" and
\* the same timestamps; with the title " " and nothing else
CardRecords ==
    {[content |-> <<>>, created |-> IsoFormat(0), modified |-> IsoFormat(1)],
     [title |-> <<>>, content |-> <<>>, created |-> IsoFormat(0),
      modified |-> IsoFormat(1)],
     [title |-> <<32, 97>>, content |-> <<>>, created |-> IsoFormat(0),
      modified |-> IsoFormat(1)],
     [title |-> <<32>>]}

\* the fields of the record of a card
CardFields == {"title", "content", "created", "modified"}

\* records with every field: the title "" or " a", the content "x", created
\* at 0, and modified a tick later or "x", which is no timestamp
FullCardRecords ==
    [title : {<<>>, <<32, 97>>}, content : {<<120>>}, created : {IsoFormat(0)},
     modified : {IsoFormat(1), <<120>>}]

\* the records above, and the same with any of their fields left out
PartialCardRecords ==
    {[f \in present |-> full[f]] :
        present \in SUBSET CardFields, full \in FullCardRecords}

\* max_length arguments: from 0 to one more than the longest title
MaxLengthArgs == 0..(MaxTitleLen + 1)

\* contents to search in: "" and "aB"
SearchContents == {<<>>, <<97, 66>>}

\* queries: "", "b" (in the title "B" and in the content "aB"), "AB" (in the
\* content "aB" only) and "z" (in nothing)
Queries == {<<>>, <<98>>, <<65, 66>>, <<122>>}

\* from_index arguments for a list of n cards: from two before the first
\* index to one past the end
FromIndexArgs(n) == -2..n

\* index arguments for a list of n cards: <<>> is None (the default), <<i>>
\* is the integer i, from -1 to n, the first index past the end
IndexArgs(n) == {<<>>} \cup {<<i>> : i \in -1..n}

Paths == {"p1", "p2"}

\* path arguments: <<>> is None, <<p>> is Path(p)
PathArgs == {<<>>} \cup {<<p>> : p \in Paths}

\* the record of one card in a document, a dict: with timestamps that parse
\* (titles "a" and "B"), and with a created that does not parse ("x")
GoodRecords ==
    [title : {<<97>>, <<66>>}, content : {<<120>>}, created : {IsoFormat(0)},
     modified : {IsoFormat(0)}]

BadRecords ==
    [title : {<<97>>}, content : {<<120>>}, created : {<<120>>},
     modified : {IsoFormat(0)}]

DocRecords == GoodRecords \cup BadRecords

DocLists == UNION {[1..n -> DocRecords] : n \in 0..MaxDocLen}

\* what load_from_file may find at a path:
\*   unreadable   read_text raises (no such file, no permission)
\*   unparseable  json.loads raises
\*   notobject    the top-level value is not an object: data.get raises
\*   badcards     "cards" is null or a number: iterating it raises
\*   nocards      an object without "cards"
\*   ok           an object whose "cards" is the list doc.cards
Documents ==
    {[kind |-> k, cards |-> <<>>] :
        k \in {"unreadable", "unparseable", "notobject", "badcards", "nocards"}}
    \cup {[kind |-> "ok", cards |-> l] : l \in DocLists}

(***************************************************************************)
(* The state machine.                                                      *)
(***************************************************************************)
\* the CardFile object of the current state
Self ==
    [cards         |-> Tag(cards),
     current_index |-> current_index,
     filepath      |-> filepath,
     modified      |-> modified]

\* the object after a call becomes the state
Becomes(self) ==
    /\ cards' = Untag(self.cards)
    /\ current_index' = self.current_index
    /\ filepath' = self.filepath
    /\ modified' = self.modified

\* the record of a call: the operation, its argument (for a load the path and
\* the kind of document found there, for a save the path and whether the
\* write succeeds, for a new_file what the collection held before), whether it returned True or a card, where the returned
\* card stands (0-based, -1 if none), the first record of the document whose
\* timestamp does not parse (0-based, -1 if none), for each position of the
\* list after the call the tag of the object there, the document a save has
\* written (<<>> if none), and what a search or a find_next has returned
Ret(op, arg, ok, pos, bad, self) ==
    [op |-> op, arg |-> arg, ok |-> ok, pos |-> pos, bad |-> bad,
     ident |-> Ids(self.cards), doc |-> <<>>, found |-> <<>>]

\* the model keeps to MaxCards cards and titles of MaxTitleLen characters
WithinBounds(self) ==
    /\ Len(self.cards) <= MaxCards
    /\ \A i \in 1..Len(self.cards) : Len(self.cards[i].val.title) <= MaxTitleLen

\* CardFile.__init__
Init ==
    /\ cards = <<>>
    /\ current_index = 0
    /\ filepath = <<>>
    /\ modified = FALSE
    /\ clock = 0
    /\ snapshot = <<>>
    /\ ret = [op |-> "init", arg |-> <<>>, ok |-> TRUE, pos |-> -1, bad |-> -1,
              ident |-> <<>>, doc |-> <<>>, found |-> <<>>]
    /\ window = [last_search_query |-> <<>>, alive |-> TRUE]

\* time passes between two calls
Tick ==
    /\ clock < MaxClock
    /\ clock' = clock + 1
    /\ ret' = Ret("tick", <<>>, TRUE, -1, -1, Self)
    /\ UNCHANGED <<cards, current_index, filepath, modified, snapshot, window>>

AddCard ==
    \E title \in TitleInputs, content \in ContentInputs :
        \E out \in {add_card(Self, title, content, clock)} :
            /\ WithinBounds(out.self)
            /\ Becomes(out.self)
            /\ ret' = Ret("add", <<>>, TRUE,
                          PosOfId(out.self.cards, out.result[1].id), -1, out.self)
            /\ snapshot' = <<>>
            /\ UNCHANGED <<clock, window>>

DeleteCard ==
    \E index \in IndexArgs(Len(cards)) :
        \E out \in {delete_card(Self, index)} :
            /\ Becomes(out.self)
            /\ ret' = Ret("delete", index, out.result, -1, -1, out.self)
            /\ snapshot' = IF out.self.modified THEN <<>> ELSE snapshot
            /\ UNCHANGED <<clock, window>>

DuplicateCard ==
    \E index \in IndexArgs(Len(cards)) :
        \E out \in {duplicate_card(Self, index, clock)} :
            /\ WithinBounds(out.self)
            /\ Becomes(out.self)
            /\ ret' = Ret("duplicate", index, out.result # <<>>,
                          IF out.result # <<>>
                          THEN PosOfId(out.self.cards, out.result[1].id) ELSE -1,
                          -1, out.self)
            /\ snapshot' = IF out.self.modified THEN <<>> ELSE snapshot
            /\ UNCHANGED <<clock, window>>

SortCards ==
    \E out \in {sort_cards(Self)} :
        /\ Becomes(out)
        /\ ret' = Ret("sort", <<>>, TRUE, -1, -1, out)
        /\ UNCHANGED <<clock, snapshot, window>>

NavigateTo ==
    \E index \in -1..Len(cards) :
        \E out \in {navigate_to(Self, index)} :
            /\ Becomes(out.self)
            /\ ret' = Ret("navigate_to", <<index>>, out.result, -1, -1, out.self)
            /\ UNCHANGED <<clock, snapshot, window>>

NavigateNext ==
    \E out \in {navigate_next(Self)} :
        /\ Becomes(out.self)
        /\ ret' = Ret("navigate_next", <<>>, out.result, -1, -1, out.self)
        /\ UNCHANGED <<clock, snapshot, window>>

NavigatePrevious ==
    \E out \in {navigate_previous(Self)} :
        /\ Becomes(out.self)
        /\ ret' = Ret("navigate_previous", <<>>, out.result, -1, -1, out.self)
        /\ UNCHANGED <<clock, snapshot, window>>

NewFile ==
    \E out \in {new_file(Self)} :
        /\ Becomes(out)
        /\ ret' = Ret("new_file",
                      [cards |-> Len(cards), filepath |-> filepath,
                       modified |-> modified],
                      TRUE, -1, -1, out)
        /\ snapshot' = <<>>
        /\ UNCHANGED <<clock, window>>

SaveToFile ==
    \E path \in PathArgs, written \in BOOLEAN :
        \E out \in {save_to_file(Self, path, written)} :
            /\ Becomes(out.self)
            /\ ret' = [Ret("save", [path |-> path, written |-> written],
                            out.result, -1, -1, out.self)
                           EXCEPT !.doc = out.data]
            /\ snapshot' = IF out.result THEN cards ELSE snapshot
            /\ UNCHANGED <<clock, window>>

LoadFromFile ==
    \E path \in Paths, doc \in Documents :
        \E out \in {load_from_file(Self, path, doc, clock)} :
            /\ Becomes(out.self)
            /\ ret' = Ret("load", <<path, doc.kind>>, out.result, -1,
                          IF doc.kind = "ok" THEN FirstBadRecord(doc.cards) ELSE -1,
                          out.self)
            /\ snapshot' = IF out.result THEN Untag(LoadedCards(doc, clock))
                           ELSE snapshot
            /\ UNCHANGED <<clock, window>>

\* load_from_file of the file that the last call, a successful save, has
\* written: json.loads gives back the strings json.dumps was given
LoadSavedFile ==
    /\ ret.op = "save" /\ ret.ok
    /\ \E doc \in {[kind |-> "ok", cards |-> ret.doc[1].cards]} :
         \E out \in {load_from_file(Self, filepath[1], doc, clock)} :
             /\ Becomes(out.self)
             /\ ret' = Ret("load_saved", <<filepath[1], doc.kind>>, out.result, -1,
                           FirstBadRecord(doc.cards), out.self)
             /\ snapshot' = IF out.result THEN Untag(LoadedCards(doc, clock))
                            ELSE snapshot
             /\ UNCHANGED <<clock, window>>

EditCard ==
    /\ cards # <<>>
    /\ \E entry \in TitleInputs, content \in ContentInputs :
         \E out \in {edit_card(Self, entry, content, clock)} :
             /\ Becomes(out)
             /\ ret' = Ret("edit", <<>>, TRUE, -1, -1, out)
             /\ snapshot' = <<>>
             /\ UNCHANGED <<clock, window>>

Next ==
    \/ Tick
    \/ AddCard
    \/ DeleteCard
    \/ DuplicateCard
    \/ SortCards
    \/ NavigateTo
    \/ NavigateNext
    \/ NavigatePrevious
    \/ NewFile
    \/ SaveToFile
    \/ LoadFromFile
    \/ LoadSavedFile
    \/ EditCard

Spec == Init /\ [][Next]_vars

(***************************************************************************)
(* Searching: a collection of cards with contents that differ, and the two *)
(* searches on it.  No time passes.                                        *)
(***************************************************************************)
SearchAddCard ==
    \E title \in TitleInputs, content \in SearchContents :
        \E out \in {add_card(Self, title, content, clock)} :
            /\ WithinBounds(out.self)
            /\ Becomes(out.self)
            /\ ret' = Ret("add", <<>>, TRUE,
                          PosOfId(out.self.cards, out.result[1].id), -1, out.self)
            /\ snapshot' = <<>>
            /\ UNCHANGED <<clock, window>>

Search ==
    \E query \in Queries, search_content \in BOOLEAN :
        \E results \in {search(Self, query, search_content)} :
            /\ ret' = [Ret("search",
                            [query |-> query, search_content |-> search_content],
                            TRUE, -1, -1, Self)
                           EXCEPT !.found = results]
            /\ UNCHANGED <<cards, current_index, filepath, modified, clock,
                           snapshot, window>>

FindNext ==
    \E query \in Queries, from_index \in FromIndexArgs(Len(cards)) :
        \E result \in {find_next(Self, query, from_index)} :
            /\ ret' = [Ret("find_next",
                            [query |-> query, from_index |-> from_index],
                            result # <<>>, -1, -1, Self)
                           EXCEPT !.found = result]
            /\ UNCHANGED <<cards, current_index, filepath, modified, clock,
                           snapshot, window>>

\* the operations of the window that look for the next match
FindOps == {"find_card", "window_find_next"}

\* where the cursor stood after each of the Find Next steps made in a row
\* for this query, up to the current state
FindRun(query) ==
    IF ret.op \in FindOps /\ ret.arg.query = query THEN ret.found ELSE <<>>

\* MainWindow.find_card: the dialog hands on_find a query that is not empty
FindCard ==
    \E query \in Queries \ {<<>>} :
        \E out \in {on_find(Self, window, query)} :
            /\ Len(FindRun(query)) < MaxFindSteps
            /\ Becomes(out.self)
            /\ window' = out.window
            /\ ret' = [Ret("find_card", [query |-> query], out.result # <<>>,
                            -1, -1, out.self)
                           EXCEPT !.found = Append(FindRun(query),
                                                   out.self.current_index)]
            /\ UNCHANGED <<clock, snapshot>>

\* MainWindow.find_next (F3)
WindowFindNext ==
    \E out \in {window_find_next(Self, window)} :
        /\ Len(FindRun(window.last_search_query)) < MaxFindSteps
        /\ Becomes(out.self)
        /\ window' = out.window
        /\ ret' = [Ret("window_find_next",
                        [query |-> window.last_search_query],
                        out.result # <<>>, -1, -1, out.self)
                       EXCEPT !.found = Append(FindRun(window.last_search_query),
                                               out.self.current_index)]
        /\ UNCHANGED <<clock, snapshot>>

SearchNext ==
    \/ SearchAddCard
    \/ DeleteCard
    \/ NavigateTo
    \/ Search
    \/ FindNext
    \/ FindCard
    \/ WindowFindNext

SearchSpec == Init /\ [][SearchNext]_vars

(***************************************************************************)
(* Cards: a collection of a few cards made from titles and contents with   *)
(* blanks in them, and the methods of Card called on the current card      *)
(* (CardFile.current_card hands the object out).                           *)
(***************************************************************************)
\* add_card(title, content): the collection constructs Card(title=title,
\* content=content)
ConstructCard ==
    /\ Len(cards) < MaxCardsEdited
    /\ \E title \in CardTitleInputs, content \in CardContentInputs :
         \E out \in {add_card(Self, title, content, clock)} :
             /\ WithinBounds(out.self)
             /\ Becomes(out.self)
             /\ ret' = Ret("construct", [title |-> title, content |-> content],
                           TRUE, PosOfId(out.self.cards, out.result[1].id), -1,
                           out.self)
             /\ snapshot' = <<>>
             /\ UNCHANGED <<clock, window>>

\* load_from_file of a document of one record: the collection makes the card
\* with Card.from_dict
DeserializeCard ==
    \E path \in Paths, data \in CardRecords :
        \E doc \in {[kind |-> "ok", cards |-> <<data>>]} :
            \E out \in {load_from_file(Self, path, doc, clock)} :
                /\ Becomes(out.self)
                /\ ret' = Ret("deserialize", [path |-> path, data |-> data],
                              out.result, 0, FirstBadRecord(doc.cards), out.self)
                /\ snapshot' = IF out.result THEN Untag(LoadedCards(doc, clock))
                               ELSE snapshot
                /\ UNCHANGED <<clock, window>>

\* duplicate_card, while there is room for the copy
CopyCard ==
    /\ Len(cards) < MaxCardsEdited
    /\ DuplicateCard

\* current_card.update_title(new_title)
UpdateCardTitle ==
    /\ cards # <<>>
    /\ \E new_title \in CardTitleInputs :
         /\ cards' = [cards EXCEPT ![current_index + 1] =
                                      UpdateTitle(@, new_title, clock)]
         /\ ret' = Ret("update_title", [title |-> new_title], TRUE,
                       current_index, -1, Self)
         /\ UNCHANGED <<current_index, filepath, modified, clock, snapshot, window>>

\* current_card.update_content(new_content)
UpdateCardContent ==
    /\ cards # <<>>
    /\ \E new_content \in CardContentInputs :
         /\ cards' = [cards EXCEPT ![current_index + 1] =
                                      UpdateContent(@, new_content, clock)]
         /\ ret' = Ret("update_content", [content |-> new_content], TRUE,
                       current_index, -1, Self)
         /\ UNCHANGED <<current_index, filepath, modified, clock, snapshot, window>>

\* current_card.get_index_title(max_length)
IndexTitle ==
    /\ cards # <<>>
    /\ \E max_length \in MaxLengthArgs :
         \E label \in {get_index_title(cards[current_index + 1], max_length)} :
             /\ ret' = [Ret("get_index_title", [max_length |-> max_length], TRUE,
                            current_index, -1, Self)
                           EXCEPT !.found = label]
             /\ UNCHANGED <<cards, current_index, filepath, modified, clock,
                            snapshot, window>>

CardNext ==
    \/ Tick
    \/ IndexTitle
    \/ ConstructCard
    \/ DeserializeCard
    \/ CopyCard
    \/ UpdateCardTitle
    \/ UpdateCardContent

CardSpec == Init /\ [][CardNext]_vars

(***************************************************************************)
(* Records: documents of one record that lacks any of its fields, loaded   *)
(* at different times.                                                     *)
(***************************************************************************)
\* load_from_file of a document of one record, which Card.from_dict makes a
\* card from
DeserializeRecord ==
    \E path \in Paths, data \in PartialCardRecords :
        \E doc \in {[kind |-> "ok", cards |-> <<data>>]} :
            \E out \in {load_from_file(Self, path, doc, clock)} :
                /\ Becomes(out.self)
                /\ ret' = Ret("deserialize", [path |-> path, data |-> data],
                              out.result, 0, FirstBadRecord(doc.cards), out.self)
                /\ snapshot' = IF out.result THEN Untag(LoadedCards(doc, clock))
                               ELSE snapshot
                /\ UNCHANGED <<clock, window>>

RecordNext ==
    \/ Tick
    \/ DeserializeRecord

RecordSpec == Init /\ [][RecordNext]_vars

(***************************************************************************)
(* The window: its handlers for the file menu, for closing, and for adding *)
(* and deleting a card, each with what the user answers its prompts and    *)
(* pickers.  No time passes; the window does nothing once destroyed.       *)
(***************************************************************************)
\* what the user may answer askyesnocancel and askyesno
SaveAnswers == {"yes", "no", "cancel"}

DeleteAnswers == {"yes", "no"}

\* what the add dialog may hand back
DialogResults ==
    {<<>>} \cup {<<DialogTitle(entry), content>> :
                    entry \in TitleInputs, content \in ContentInputs}

\* what the Open picker's path may hold: the documents of at most one card
WindowDocuments == {doc \in Documents : Len(doc.cards) <= 1}

\* MainWindow.__init__: a collection with the first card
WindowInit ==
    /\ cards = <<NewCard(WELCOME_TITLE, WELCOME_CONTENT, 0)>>
    /\ current_index = 0
    /\ filepath = <<>>
    /\ modified = TRUE
    /\ clock = 0
    /\ snapshot = <<>>
    /\ ret = [op |-> "init", arg |-> <<>>, ok |-> TRUE, pos |-> -1, bad |-> -1,
              ident |-> <<1>>, doc |-> <<>>, found |-> <<>>]
    /\ window = [last_search_query |-> <<>>, alive |-> TRUE]

WindowNewFile ==
    /\ window.alive
    /\ \E answer \in SaveAnswers, picker \in PathArgs, written \in BOOLEAN :
         \E out \in {window_new_file(Self, answer, picker, written, clock)} :
             /\ Becomes(out.self)
             /\ ret' = [Ret("window_new",
                             [answer |-> out.answer, picker |-> picker,
                              written |-> written],
                             out.went_on, -1, -1, out.self)
                            EXCEPT !.doc = out.data]
             /\ snapshot' = <<>>
             /\ UNCHANGED <<clock, window>>

WindowOpenFile ==
    /\ window.alive
    /\ \E answer \in SaveAnswers, picker \in PathArgs, written \in BOOLEAN,
          chosen \in PathArgs, doc \in WindowDocuments :
         \E out \in {window_open_file(Self, answer, picker, written, chosen,
                                      doc, clock)} :
             /\ Becomes(out.self)
             /\ ret' = [Ret("window_open",
                             [answer |-> out.answer, picker |-> picker,
                              written |-> written],
                             out.went_on, -1, -1, out.self)
                            EXCEPT !.doc = out.data]
             /\ snapshot' = <<>>
             /\ UNCHANGED <<clock, window>>

WindowClose ==
    /\ window.alive
    /\ \E answer \in SaveAnswers, picker \in PathArgs, written \in BOOLEAN :
         \E out \in {on_close(Self, answer, picker, written)} :
             /\ Becomes(out.self)
             /\ window' = [window EXCEPT !.alive = ~out.went_on]
             /\ ret' = [Ret("window_close",
                             [answer |-> out.answer, picker |-> picker,
                              written |-> written],
                             out.went_on, -1, -1, out.self)
                            EXCEPT !.doc = out.data]
             /\ snapshot' = <<>>
             /\ UNCHANGED clock

WindowSaveFile ==
    /\ window.alive
    /\ \E picker \in PathArgs, written \in BOOLEAN :
         \E out \in {save_file(Self, picker, written)} :
             /\ Becomes(out.self)
             /\ ret' = [Ret("window_save",
                             [answer |-> "none", picker |-> picker,
                              written |-> written],
                             out.result, -1, -1, out.self)
                            EXCEPT !.doc = out.data]
             /\ snapshot' = <<>>
             /\ UNCHANGED <<clock, window>>

WindowSaveFileAs ==
    /\ window.alive
    /\ \E picker \in PathArgs, written \in BOOLEAN :
         \E out \in {save_file_as(Self, picker, written)} :
             /\ Becomes(out.self)
             /\ ret' = [Ret("window_save_as",
                             [answer |-> "none", picker |-> picker,
                              written |-> written],
                             out.result, -1, -1, out.self)
                            EXCEPT !.doc = out.data]
             /\ snapshot' = <<>>
             /\ UNCHANGED <<clock, window>>

WindowDeleteCard ==
    /\ window.alive
    /\ \E answer \in DeleteAnswers :
         \E out \in {window_delete_card(Self, answer)} :
             /\ Becomes(out.self)
             /\ ret' = Ret("window_delete", [answer |-> out.answer],
                           Len(out.self.cards) < Len(cards), -1, -1, out.self)
             /\ snapshot' = <<>>
             /\ UNCHANGED <<clock, window>>

WindowAddCard ==
    /\ window.alive
    /\ \E result \in DialogResults :
         \E out \in {window_add_card(Self, result, clock)} :
             /\ WithinBounds(out)
             /\ Becomes(out)
             /\ ret' = Ret("window_add", result, result # <<>>, -1, -1, out)
             /\ snapshot' = <<>>
             /\ UNCHANGED <<clock, window>>

WindowNext ==
    \/ WindowNewFile
    \/ WindowOpenFile
    \/ WindowClose
    \/ WindowSaveFile
    \/ WindowSaveFileAs
    \/ WindowDeleteCard
    \/ WindowAddCard

WindowSpec == WindowInit /\ [][WindowNext]_vars

(***************************************************************************)
(* Properties.                                                             *)
(***************************************************************************)
\* cs is non-decreasing in lower-cased title
IsSortedByTitle(cs) ==
    \A i \in 1..(Len(cs) - 1) : StrLeq(Lower(cs[i].title), Lower(cs[i + 1].title))

\* f is a one-to-one map of 1..Len(f) onto 1..n
IsPermutation(f, n) ==
    /\ Len(f) = n
    /\ \A i \in 1..n : \E j \in 1..n : f[j] = i

\* the index a call with argument arg acts on: arg, or the cursor by default
Target(arg) == IF arg # <<>> THEN arg[1] ELSE current_index

\* C1: in every reachable state the cursor is a valid index, 0 <=
\* current_index < len(cards), when there are cards, and 0 when there are none
CurrentIndexInRange ==
    IF cards = <<>>
    THEN current_index = 0
    ELSE 0 <= current_index /\ current_index < Len(cards)

\* C1: the last of three cards, the current one, has been deleted and the
\* cursor stands on the new last card
CursorClampedAfterDelete ==
    /\ ret.op = "delete" /\ ret.ok /\ ret.arg = <<>>
    /\ ret.ident = <<1, 2>>
    /\ current_index = 1

\* C2: after every successful add, delete, duplicate, sort and load and after
\* every edit through the window, the cards are non-decreasing in lower-cased
\* title
SortedAfterMutation ==
    (ret.op \in {"add", "delete", "duplicate", "sort", "load", "edit"} /\ ret.ok)
        => IsSortedByTitle(cards)

\* C2: an edit changed the title of the first of three cards and the card
\* moved behind another one, "a" before "B"
EditMovedCard ==
    /\ ret.op = "edit"
    /\ Len(cards) = 3
    /\ ret.ident[1] # 1
    /\ \E i \in 1..2 : cards[i].title = <<97>> /\ cards[i + 1].title = <<66>>

\* C3: whenever the cards in memory (their order, titles, contents) differ
\* from the cards of the document last saved or loaded (none at the start and
\* after new_file), modified is TRUE.  snapshot is that document for as long
\* as modified is FALSE, which are the states the claim says something about.
DirtyWheneverDiffers == cards # snapshot => modified

\* C4: add_card grows the list by one card, keeps every card that was there,
\* sets modified, returns the card it constructed and leaves the cursor on
\* that very object
AddCardContract ==
    [][ret'.op = "add" =>
          /\ Len(cards') = Len(cards) + 1
          /\ \A i \in 1..Len(cards) :
                \E j \in 1..Len(cards') : ret'.ident[j] = i /\ cards'[j] = cards[i]
          /\ modified'
          /\ ret'.pos >= 0
          /\ ret'.ident[ret'.pos + 1] = Len(cards) + 1
          /\ current_index' = ret'.pos]_vars

\* C5: duplicate_card on a card in range succeeds: the new card has the
\* original's title followed by " (Copy)" and the original's content, the
\* original stays in the list unchanged, the list grows by one, modified is
\* set and the cursor is on the new object
DuplicateCardContract ==
    [][(ret'.op = "duplicate" /\ cards # <<>>
            /\ 0 <= Target(ret'.arg) /\ Target(ret'.arg) < Len(cards)) =>
          LET i == Target(ret'.arg) + 1
          IN  /\ ret'.ok
              /\ Len(cards') = Len(cards) + 1
              /\ ret'.pos >= 0
              /\ ret'.ident[ret'.pos + 1] = Len(cards) + 1
              /\ cards'[ret'.pos + 1].title = cards[i].title \o COPY_SUFFIX
              /\ cards'[ret'.pos + 1].content = cards[i].content
              /\ \E j \in 1..Len(cards') : ret'.ident[j] = i /\ cards'[j] = cards[i]
              /\ modified'
              /\ current_index' = ret'.pos]_vars

\* C6: sort_cards on a collection with cards permutes them, none added or
\* removed, and the cursor stays on the object it was on
SortCardsContract ==
    [][(ret'.op = "sort" /\ cards # <<>>) =>
          /\ IsPermutation(ret'.ident, Len(cards))
          /\ \A j \in 1..Len(cards') : cards'[j] = cards[ret'.ident[j]]
          /\ ret'.ident[current_index' + 1] = current_index + 1]_vars

\* C7: delete_card on an index i in range (the cursor by default) returns
\* True, removes the card at i and no other, keeps the order of the rest, sets
\* modified and leaves the cursor at min(old cursor, new len - 1), or at 0
\* when no card is left
DeleteCardContract ==
    [][(ret'.op = "delete" /\ cards # <<>>
            /\ 0 <= Target(ret'.arg) /\ Target(ret'.arg) < Len(cards)) =>
          LET i == Target(ret'.arg) + 1
              n == Len(cards) - 1
          IN  /\ ret'.ok
              /\ Len(cards') = n
              /\ \A j \in 1..n : cards'[j] = IF j < i THEN cards[j] ELSE cards[j + 1]
              /\ modified'
              /\ current_index' =
                     IF n = 0 THEN 0
                     ELSE IF current_index < n - 1 THEN current_index ELSE n - 1]_vars

\* C7: the middle one of three cards has been deleted
MiddleCardDeleted == ret.op = "delete" /\ ret.ok /\ ret.ident = <<1, 3>>

\* C8: delete_card and duplicate_card with an index out of range or on an
\* empty collection, and navigate_to with an index out of range, return False
\* (None) and leave cards, current_index, filepath and modified as they were
FailedCallsChangeNothing ==
    [][(\/ /\ ret'.op \in {"delete", "duplicate"}
           /\ (cards = <<>> \/ ~(0 <= Target(ret'.arg) /\ Target(ret'.arg) < Len(cards)))
        \/ /\ ret'.op = "navigate_to"
           /\ ~(0 <= ret'.arg[1] /\ ret'.arg[1] < Len(cards))) =>
          /\ ~ret'.ok
          /\ UNCHANGED <<cards, current_index, filepath, modified>>]_vars

\* C8: a call with a negative index has failed on a modified collection that
\* holds cards
NegativeIndexRefused ==
    /\ ret.op \in {"delete", "duplicate", "navigate_to"}
    /\ ~ret.ok
    /\ ret.arg = <<-1>>
    /\ cards # <<>>
    /\ modified

\* C9: a load that fails (a file that cannot be read or parsed, a document
\* or a cards field of the wrong shape, a timestamp that does not parse in
\* any record) returns False and leaves cards, current_index, filepath and
\* modified as they were
FailedLoadChangesNothing ==
    [][ret'.op = "load" =>
          /\ (\/ ret'.arg[2] \in {"unreadable", "unparseable", "notobject", "badcards"}
              \/ ret'.bad # -1) => ~ret'.ok
          /\ ~ret'.ok => UNCHANGED <<cards, current_index, filepath, modified>>]_vars

\* C9: a load has failed on the second record of a document, after a valid
\* first one, on a modified collection that holds cards and has no path
LoadFailedOnLaterRecord ==
    /\ ret.op = "load" /\ ~ret.ok /\ ret.bad = 1
    /\ cards # <<>>
    /\ modified
    /\ filepath = <<>>

\* C10 as stated: after a successful load the cards are the records of the
\* document in title order, current_index is 0, filepath is the path loaded
\* and modified is FALSE
LoadFromFileLeavesCursorAtZero ==
    (ret.op = "load" /\ ret.ok) =>
        /\ IsPermutation(ret.ident, Len(snapshot))
        /\ \A j \in 1..Len(cards) : cards[j] = snapshot[ret.ident[j]]
        /\ IsSortedByTitle(cards)
        /\ current_index = 0
        /\ filepath = <<ret.arg[1]>>
        /\ ~modified

\* C10 as amended: after a successful load the cards are the records of the
\* document in title order, filepath is the path loaded, modified is FALSE,
\* and the cursor is on the card of the document's first record, wherever the
\* sort has put it (0 for a document without cards)
LoadFromFileContract ==
    (ret.op = "load" /\ ret.ok) =>
        /\ IsPermutation(ret.ident, Len(snapshot))
        /\ \A j \in 1..Len(cards) : cards[j] = snapshot[ret.ident[j]]
        /\ IsSortedByTitle(cards)
        /\ IF cards = <<>> THEN current_index = 0
           ELSE ret.ident[current_index + 1] = 1
        /\ filepath = <<ret.arg[1]>>
        /\ ~modified

\* C10: a document with "B" before "a" has been loaded: the cards are sorted
\* and the cursor has followed "B" to index 1
UnsortedDocumentLoaded ==
    /\ ret.op = "load" /\ ret.ok
    /\ ret.ident = <<2, 1>>
    /\ current_index = 1

\* the path a save with argument arg writes to: the path given, or the stored
\* one by default; <<>> if there is neither
SaveTarget(arg) == IF arg.path # <<>> THEN arg.path ELSE filepath

\* C11: a save with a path to write to (the one given, the stored one by
\* default) whose write succeeds returns True; a save that returns True has
\* written the version "1.0.1" and the cards, each with its title, content
\* and timestamps, in the order of the list; filepath is then the path written
\* to, modified is FALSE, and cards and current_index are as before
SaveToFileContract ==
    [][ret'.op = "save" =>
          /\ (SaveTarget(ret'.arg) # <<>> /\ ret'.arg.written) => ret'.ok
          /\ ret'.ok =>
                /\ SaveTarget(ret'.arg) # <<>>
                /\ Len(ret'.doc) = 1
                /\ ret'.doc[1].version = "1.0.1"
                /\ Len(ret'.doc[1].cards) = Len(cards)
                /\ \A i \in 1..Len(cards) :
                      ret'.doc[1].cards[i] =
                          [title    |-> cards[i].title,
                           content  |-> cards[i].content,
                           created  |-> IsoFormat(cards[i].created),
                           modified |-> IsoFormat(cards[i].modified)]
                /\ filepath' = SaveTarget(ret'.arg)
                /\ ~modified'
                /\ cards' = cards
                /\ current_index' = current_index]_vars

\* C11: three cards, the cursor on the last, have been saved to a path given
\* to the call, "a" before "B" in the document as in the list
SavedUnderGivenPath ==
    /\ ret.op = "save" /\ ret.ok
    /\ ret.arg.path = <<"p2">>
    /\ filepath = <<"p2">>
    /\ Len(ret.doc[1].cards) = 3
    /\ ret.doc[1].cards[1].title = <<97>>
    /\ ret.doc[1].cards[3].title = <<66>>
    /\ current_index = 2

\* C12: a save with no path to write to (none given, none stored) or whose
\* write fails returns False, and a save that returns False leaves cards,
\* current_index, filepath and modified as they were
FailedSaveChangesNothing ==
    [][ret'.op = "save" =>
          /\ (SaveTarget(ret'.arg) = <<>> \/ ~ret'.arg.written) => ~ret'.ok
          /\ ~ret'.ok => UNCHANGED <<cards, current_index, filepath, modified>>]_vars

\* C12: the write to a path given to the call has failed on a modified
\* collection stored under another path
FailedSaveToGivenPath ==
    /\ ret.op = "save" /\ ~ret.ok
    /\ ret.arg.path = <<"p2">> /\ ~ret.arg.written
    /\ filepath = <<"p1">>
    /\ modified
    /\ cards # <<>>

\* C13: loading the file a successful save has just written succeeds and
\* gives the cards that were saved: as many, in the same order, each with the
\* same title, content, created and modified
SaveLoadRoundTrip ==
    [][ret'.op = "load_saved" => (ret'.ok /\ cards' = cards)]_vars

\* C13: two cards have been saved and loaded again, "a" before "B", one of
\* them modified a fraction of a second after it was created
RoundTripWithFractions ==
    /\ ret.op = "load_saved" /\ ret.ok
    /\ Len(cards) = 2
    /\ cards[1].title = <<97>> /\ cards[2].title = <<66>>
    /\ \E i \in 1..2 : cards[i].created = 0 /\ cards[i].modified = 1

\* C16: navigate_next moves the cursor one card on and returns True when the
\* cursor is before the last card, and otherwise returns False and leaves it;
\* navigate_previous moves it one card back and returns True when it is after
\* the first card, and otherwise returns False and leaves it; neither goes
\* round the end, neither moves on a collection without cards, and neither
\* changes cards, filepath or modified
NavigateStepContract ==
    [][/\ ret'.op = "navigate_next" =>
            /\ IF current_index < Len(cards) - 1
               THEN ret'.ok /\ current_index' = current_index + 1
               ELSE ~ret'.ok /\ current_index' = current_index
            /\ cards = <<>> => ~ret'.ok
            /\ UNCHANGED <<cards, filepath, modified>>
       /\ ret'.op = "navigate_previous" =>
            /\ IF current_index > 0
               THEN ret'.ok /\ current_index' = current_index - 1
               ELSE ~ret'.ok /\ current_index' = current_index
            /\ cards = <<>> => ~ret'.ok
            /\ UNCHANGED <<cards, filepath, modified>>]_vars

\* C16: navigate_next has been refused on the last of three cards
NextRefusedOnLastCard ==
    /\ ret.op = "navigate_next" /\ ~ret.ok
    /\ Len(cards) = 3
    /\ current_index = 2

\* C17: new_file leaves no cards, the cursor at 0, no filepath and modified
\* FALSE, whatever the collection held
NewFileContract ==
    [][ret'.op = "new_file" =>
          /\ cards' = <<>>
          /\ current_index' = 0
          /\ filepath' = <<>>
          /\ ~modified']_vars

\* C17: new_file has been called on a modified collection of three cards
\* stored under a path
NewFileOnModifiedCollection ==
    /\ ret.op = "new_file"
    /\ ret.arg.cards = 3
    /\ ret.arg.filepath # <<>>
    /\ ret.arg.modified

\* sub occurs in s: s is some text, then sub, then some text
IsSubstring(sub, s) ==
    \E i \in 0..Len(s) : \E j \in i..Len(s) : SubSeq(s, i + 1, j) = sub

\* the indices (0-based) of the cards in which the lower-cased query occurs:
\* in the lower-cased title or, if in_content, in the lower-cased content
MatchingIndices(query, in_content) ==
    {i \in 0..(Len(cards) - 1) :
        \/ IsSubstring(Lower(query), Lower(cards[i + 1].title))
        \/ in_content /\ IsSubstring(Lower(query), Lower(cards[i + 1].content))}

\* the least element of a set of integers that is not empty
Least(S) == CHOOSE x \in S : \A y \in S : x <= y

\* C14: find_next(query, from_index) takes as matches the cards with the
\* query in their title or content, whatever the case; it returns the least
\* matching index greater than from_index if there is one, otherwise the
\* least matching index (which is then <= from_index, and may be from_index),
\* and None if and only if no card matches
FindNextContract ==
    [][ret'.op = "find_next" =>
          LET matches == MatchingIndices(ret'.arg.query, TRUE)
              after   == {i \in matches : i > ret'.arg.from_index}
          IN  /\ after # {} => ret'.found = <<Least(after)>>
              /\ (after = {} /\ matches # {}) =>
                    /\ ret'.found = <<Least(matches)>>
                    /\ ret'.found[1] <= ret'.arg.from_index
              /\ ret'.found = <<>> <=> matches = {}]_vars

\* C14: of three cards the first and the last match, the last by its content
\* alone; find_next from the last index has wrapped round to the first
FindNextWrapped ==
    /\ ret.op = "find_next"
    /\ Len(cards) = 3
    /\ ret.arg.query = <<65, 66>>
    /\ cards[1].content = <<97, 66>>
    /\ cards[2].content = <<>>
    /\ cards[3].content = <<97, 66>>
    /\ ret.arg.from_index = 2
    /\ ret.found = <<0>>

\* C15: search(query, search_content) returns, in increasing order and each
\* once, exactly the indices of the cards with the lower-cased query in their
\* lower-cased title or, if search_content, in their lower-cased content; so
\* the empty query gives every index, and without search_content no index of
\* a card that has the query in its content alone; it changes nothing
SearchContract ==
    [][ret'.op = "search" =>
          LET found == ret'.found
              query == ret'.arg.query
          IN  /\ \A k \in 1..(Len(found) - 1) : found[k] < found[k + 1]
              /\ {found[k] : k \in 1..Len(found)} =
                     MatchingIndices(query, ret'.arg.search_content)
              /\ query = <<>> =>
                     found = [k \in 1..Len(cards) |-> k - 1]
              /\ ~ret'.arg.search_content =>
                     \A k \in 1..Len(found) :
                        IsSubstring(Lower(query), Lower(cards[found[k] + 1].title))
              /\ UNCHANGED <<cards, current_index, filepath, modified>>]_vars

\* C15: a search of the titles alone for "b" has found the card "B" at index
\* 1 and not the card "a" at index 0, which has the query in its content
ContentOnlyMatchLeftOut ==
    /\ ret.op = "search"
    /\ ret.arg.query = <<98>> /\ ~ret.arg.search_content
    /\ Len(cards) = 2
    /\ cards[1].title = <<97>> /\ cards[1].content = <<97, 66>>
    /\ cards[2].title = <<66>>
    /\ ret.found = <<1>>

\* a title is blank: empty, or nothing but whitespace
IsBlank(title) == \A k \in 1..Len(title) : title[k] \in {32, 9, 10, 13}

\* C18: no card of the collection has a blank title, however the card was
\* made (add_card, duplicate_card, a load) and whatever update_title and
\* update_content were given; a blank title given to add_card or to
\* update_title, and a blank or missing title in a record loaded, give the
\* title "Untitled"
TitleNeverBlank ==
    /\ \A i \in 1..Len(cards) : ~IsBlank(cards[i].title)
    /\ (ret.op \in {"construct", "update_title"} /\ IsBlank(ret.arg.title)) =>
          cards[ret.pos + 1].title = UNTITLED
    /\ (/\ ret.op = "deserialize" /\ ret.ok
        /\ ("title" \in DOMAIN ret.arg.data => IsBlank(ret.arg.data.title))) =>
          cards[1].title = UNTITLED

\* C18: update_title(" ") has left the title "Untitled" on a card that was
\* loaded with the title " a"
BlankTitleReplaced ==
    /\ ret.op = "update_title"
    /\ ret.arg.title = <<32>>
    /\ Len(cards) = 1
    /\ cards[1].title = UNTITLED
    /\ cards[1].created = 0 /\ cards[1].modified = 1
    /\ clock = 1

\* C19: a card constructed with a title that is not blank has that title
\* without its leading and trailing whitespace, and a card constructed with a
\* blank title has the title "Untitled"
ConstructedTitleIsStripped ==
    [][ret'.op = "construct" =>
          cards'[ret'.pos + 1].title =
              IF IsBlank(ret'.arg.title) THEN UNTITLED
              ELSE Strip(ret'.arg.title)]_vars

\* C20 as stated: update_title and update_content leave created as it was
\* and modified not earlier than it was; update_content stores the content
\* as given and leaves the title, update_title leaves the content
UpdateNeverSetsModifiedBack ==
    [][ret'.op \in {"update_title", "update_content"} =>
          LET before == cards[current_index + 1]
              after  == cards'[current_index + 1]
          IN  /\ after.created = before.created
              /\ after.modified >= before.modified
              /\ ret'.op = "update_content" =>
                    /\ after.content = ret'.arg.content
                    /\ after.title = before.title
              /\ ret'.op = "update_title" =>
                    after.content = before.content]_vars

\* C20 as amended: update_title and update_content leave created as it was
\* and set modified to the time of the call, which is not earlier than it was
\* unless the card was loaded with a modified timestamp ahead of the clock;
\* update_content stores the content as given and leaves the title,
\* update_title leaves the content
UpdateContract ==
    [][ret'.op \in {"update_title", "update_content"} =>
          LET before == cards[current_index + 1]
              after  == cards'[current_index + 1]
          IN  /\ after.created = before.created
              /\ after.modified = clock
              /\ before.modified <= clock => after.modified >= before.modified
              /\ ret'.op = "update_content" =>
                    /\ after.content = ret'.arg.content
                    /\ after.title = before.title
              /\ ret'.op = "update_title" =>
                    after.content = before.content]_vars

\* C20: update_content(" x") a tick after the card was constructed: the
\* content is kept with its blank, created is as it was, modified is later
ContentUpdatedLater ==
    /\ ret.op = "update_content"
    /\ ret.arg.content = <<32, 120>>
    /\ Len(cards) = 1
    /\ cards[1].content = <<32, 120>>
    /\ cards[1].title = <<32, 97>>
    /\ cards[1].created = 0 /\ cards[1].modified = 1

\* C23 as stated: after delete_card(i) has removed a card other than the
\* current one from a collection of two cards or more, the cursor is on the
\* object it was on
DeleteKeepsCurrentCard ==
    [][(/\ ret'.op = "delete" /\ ret'.ok
        /\ Len(cards) >= 2
        /\ Target(ret'.arg) # current_index) =>
          ret'.ident[current_index' + 1] = current_index + 1]_vars

\* C23 as amended: after delete_card(i) has removed a card other than the
\* current one, the cursor is at min(old cursor, new len - 1); it is on the
\* object it was on when i is after the cursor or when the current card was
\* the last one, and otherwise (i before the cursor) on the card that stood
\* right after the current one
DeleteKeepsCursorPosition ==
    [][(/\ ret'.op = "delete" /\ ret'.ok
        /\ Len(cards) >= 2
        /\ Target(ret'.arg) # current_index) =>
          /\ current_index' = Min(current_index, Len(cards) - 2)
          /\ ret'.ident[current_index' + 1] =
                IF Target(ret'.arg) > current_index
                      \/ current_index = Len(cards) - 1
                THEN current_index + 1
                ELSE current_index + 2]_vars

\* C23: the first of three cards has been deleted while the cursor was on
\* the second: the cursor is still at index 1, now on what was the third card
CursorSlidToNextCard ==
    /\ ret.op = "delete" /\ ret.ok
    /\ ret.arg = <<0>>
    /\ ret.ident = <<2, 3>>
    /\ current_index = 1

\* C24: after an edit through the window the cards are sorted by lower-cased
\* title, the cursor is on the object that was edited, modified is TRUE, and
\* every other card is in the list as it was
EditCardContract ==
    [][ret'.op = "edit" =>
          /\ IsSortedByTitle(cards')
          /\ IsPermutation(ret'.ident, Len(cards))
          /\ ret'.ident[current_index' + 1] = current_index + 1
          /\ modified'
          /\ \A j \in 1..Len(cards') :
                ret'.ident[j] # current_index + 1 => cards'[j] = cards[ret'.ident[j]]]_vars

\* C25: add_card, duplicate_card, sort_cards and a load keep the cards with
\* equal lower-cased titles in the order they had (for a load, the order of
\* the document); the card add_card or duplicate_card constructs, the last
\* one appended, comes after every card with its lower-cased title
SortIsStable ==
    (ret.op \in {"add", "duplicate", "sort", "load", "load_saved"} /\ ret.ok) =>
        \A j \in 1..Len(cards) : \A k \in (j + 1)..Len(cards) :
            Lower(cards[j].title) = Lower(cards[k].title) =>
                ret.ident[j] < ret.ident[k]

\* C25: a card added with the title of the first of two cards stands right
\* after it, and before the card with the greater title
AddedAfterEqualTitles ==
    /\ ret.op = "add"
    /\ Len(cards) = 3
    /\ cards[1].title = <<97>> /\ cards[2].title = <<97>> /\ cards[3].title = <<66>>
    /\ ret.pos = 1
    /\ ret.ident = <<1, 3, 2>>

\* str is the isoformat of a time
IsTimestamp(str) == \E t \in 0..(10 * TicksPerSecond - 1) : str = IsoFormat(t)

\* the time of which str is the isoformat
TimeOf(str) == CHOOSE t \in 0..(10 * TicksPerSecond - 1) : str = IsoFormat(t)

\* data has the field and it is no timestamp
Malformed(data, field) == field \in DOMAIN data /\ ~IsTimestamp(data[field])

\* C22 as stated: a load of a record succeeds whichever fields the record
\* lacks, and fails if a timestamp that is there is malformed; the card has
\* the title "Untitled", the content "" and the current time for the fields
\* that are not there, and the values of the record for those that are
FromDictKeepsPresentFields ==
    ret.op = "deserialize" =>
        LET data == ret.arg.data
        IN  /\ ret.ok <=> ~(Malformed(data, "created") \/ Malformed(data, "modified"))
            /\ ret.ok =>
                  /\ Len(cards) = 1
                  /\ cards[1].title =
                        IF "title" \in DOMAIN data THEN data.title ELSE UNTITLED
                  /\ cards[1].content =
                        IF "content" \in DOMAIN data THEN data.content ELSE <<>>
                  /\ cards[1].created =
                        IF "created" \in DOMAIN data THEN TimeOf(data.created)
                        ELSE clock
                  /\ cards[1].modified =
                        IF "modified" \in DOMAIN data THEN TimeOf(data.modified)
                        ELSE clock

\* C22 as amended: the same, but a title that is there and blank gives the
\* title "Untitled" as well
FromDictContract ==
    ret.op = "deserialize" =>
        LET data == ret.arg.data
        IN  /\ ret.ok <=> ~(Malformed(data, "created") \/ Malformed(data, "modified"))
            /\ ret.ok =>
                  /\ Len(cards) = 1
                  /\ cards[1].title =
                        IF "title" \in DOMAIN data /\ ~IsBlank(data.title)
                        THEN data.title ELSE UNTITLED
                  /\ cards[1].content =
                        IF "content" \in DOMAIN data THEN data.content ELSE <<>>
                  /\ cards[1].created =
                        IF "created" \in DOMAIN data THEN TimeOf(data.created)
                        ELSE clock
                  /\ cards[1].modified =
                        IF "modified" \in DOMAIN data THEN TimeOf(data.modified)
                        ELSE clock

\* C22: a record with nothing but a modified timestamp has been loaded a
\* tick after time 0: the card is "Untitled", empty, created now
RecordWithOnlyModifiedLoaded ==
    /\ ret.op = "deserialize" /\ ret.ok
    /\ DOMAIN ret.arg.data = {"modified"}
    /\ clock = 1
    /\ cards = <<[title |-> UNTITLED, content |-> <<>>, created |-> 1,
                  modified |-> 1]>>

\* C27 as stated: get_index_title(max_length) gives the title as it is when
\* it is no longer than max_length, and otherwise its first
\* max(0, max_length - 3) characters and "...", max_length characters in all
\* when max_length >= 3
IndexTitleFloorsAtZero ==
    ret.op = "get_index_title" =>
        LET title == cards[current_index + 1].title
            m     == ret.arg.max_length
        IN  IF Len(title) <= m
            THEN ret.found = title
            ELSE /\ ret.found = SubSeq(title, 1, IF m > 3 THEN m - 3 ELSE 0)
                                    \o <<46, 46, 46>>
                 /\ m >= 3 => Len(ret.found) = m

\* C27 as amended: the same for max_length >= 3; for max_length < 3 a longer
\* title loses its last 3 - max_length characters (all of them if it has
\* no more) and gets "..."
IndexTitleContract ==
    ret.op = "get_index_title" =>
        LET title == cards[current_index + 1].title
            m     == ret.arg.max_length
            kept  == IF m >= 3 THEN m - 3
                     ELSE IF Len(title) > 3 - m THEN Len(title) - (3 - m) ELSE 0
        IN  IF Len(title) <= m
            THEN ret.found = title
            ELSE /\ ret.found = SubSeq(title, 1, kept) \o <<46, 46, 46>>
                 /\ m >= 3 => Len(ret.found) = m

\* C27: "Untitled" has been cut to five characters and "..."
TitleCutToMaxLength ==
    /\ ret.op = "get_index_title"
    /\ ret.arg.max_length = 7
    /\ cards[current_index + 1].title = UNTITLED
    /\ ret.found = <<85, 110, 116, 105, 46, 46, 46>>

\* the match that comes after position i in the cycle of the matches: the
\* least one greater than i, otherwise the least one
NextMatch(M, i) ==
    IF {j \in M : j > i} # {} THEN Least({j \in M : j > i}) ELSE Least(M)

\* C26: a Find Next step of the window, for a query that k >= 1 cards match,
\* puts the cursor on the match that comes next after it in increasing order
\* with wrap-around, never on a card that does not match; steps made in a
\* row on the same list have been on every matching card after k of them and
\* go round the matches from then on; if no card matches the cursor stays
FindNextCycles ==
    [][(ret'.op \in FindOps /\ ret'.arg.query # <<>>) =>
          LET M   == MatchingIndices(ret'.arg.query, TRUE)
              run == ret'.found
              k   == Cardinality(M)
          IN  /\ cards' = cards
              /\ M = {} => current_index' = current_index
              /\ M # {} =>
                    /\ current_index' \in M
                    /\ current_index' = NextMatch(M, current_index)
                    /\ run[Len(run)] = current_index'
                    /\ \A j \in 1..Len(run) : run[j] \in M
                    /\ \A j \in 1..(Len(run) - 1) :
                          run[j + 1] = NextMatch(M, run[j])
                    /\ Len(run) >= k => M = {run[j] : j \in 1..k}]_vars

\* C26: of three cards the first and the last match; four steps of F3 from
\* the card between them have been on the last, the first, the last and the
\* first again
FindNextWentRoundTwice ==
    /\ ret.op = "window_find_next"
    /\ ret.arg.query = <<65, 66>>
    /\ Len(cards) = 3
    /\ cards[1].content = <<97, 66>>
    /\ cards[2].content = <<>>
    /\ cards[2].title = <<97>>
    /\ cards[3].content = <<97, 66>>
    /\ ret.found = <<2, 0, 2, 0>>

\* the handlers of the window that reset, replace or destroy the collection
DiscardOps == {"window_new", "window_open", "window_close"}

\* the document that holds the cards of the current state
DocumentOfCards == [i \in 1..Len(cards) |-> ToDict(cards[i])]

\* C21: when New, Open or closing the window goes on to reset, replace or
\* destroy the collection, then the collection was not modified, or the user
\* was asked and answered No, or answered Yes and the cards were written to
\* the file; after Cancel, after a save that fails and after a Save-As picker
\* that is cancelled the handler does not go on, and cards, current_index,
\* filepath and modified are as before; and the window deletes a card only
\* after the user has answered Yes to the delete prompt
NothingDiscardedUnasked ==
    [][/\ ret'.op \in DiscardOps =>
            LET answer    == ret'.arg.answer
                target    == IF filepath # <<>> THEN filepath ELSE ret'.arg.picker
                cancelled == answer = "cancel"
                failed    == answer = "yes" /\ target # <<>> /\ ~ret'.arg.written
                unpicked  == answer = "yes" /\ target = <<>>
            IN  /\ answer = "none" <=> ~modified
                /\ ret'.ok =>
                      \/ ~modified
                      \/ answer = "no"
                      \/ /\ answer = "yes"
                         /\ target # <<>>
                         /\ ret'.arg.written
                         /\ ret'.doc # <<>>
                         /\ ret'.doc[1].cards = DocumentOfCards
                /\ (cancelled \/ failed \/ unpicked) =>
                      /\ ~ret'.ok
                      /\ UNCHANGED <<cards, current_index, filepath, modified>>
                /\ ret'.op = "window_close" => (ret'.ok <=> ~window'.alive)
                /\ ret'.op = "window_new" =>
                      IF ret'.ok
                      THEN /\ cards' = <<NewCard(WELCOME_TITLE, NEW_FILE_CONTENT,
                                                 clock)>>
                           /\ filepath' = <<>>
                      ELSE UNCHANGED <<cards, current_index, filepath, modified>>
                /\ ret'.op = "window_open" =>
                      IF ret'.ok
                      THEN filepath' # <<>> /\ ~modified'
                      ELSE UNCHANGED <<cards, current_index>>
       /\ ret'.op = "window_delete" =>
            \/ ret'.arg.answer = "yes" /\ Len(cards') = Len(cards) - 1
            \/ UNCHANGED <<cards, current_index, filepath, modified>>]_vars

\* C21: the window was closed after Yes and a save that went through
ClosedAfterSave ==
    /\ ret.op = "window_close"
    /\ ret.arg.answer = "yes"
    /\ ret.ok
    /\ ~window.alive
    /\ ~modified
    /\ ret.doc # <<>>

====
